---- MODULE Spec2Model ----
(***************************************************************************)
(* Model of App/obj/MessageBase.py: the message hierarchy (TextMessage,    *)
(* PhotoMessage, VideoMessage, FileMessage), the channel hierarchy         *)
(* (WhatsApp, Telegram, Facebook, Instagram) and the MessageService facade.*)
(*                                                                         *)
(* Encoding.  A Python str that the code inspects character by character   *)
(* (channel_name, recipient) is a sequence of one-character strings; other *)
(* strings are atomic.  An optional value (None or a value, an attribute   *)
(* that may be absent, an exception that may have been raised) is a        *)
(* sequence of length at most one: <<>> is None, <<v>> is v.  stdout is    *)
(* the sequence of lines printed by the last call, each line a record      *)
(* holding the values the f-string interpolates.                           *)
(***************************************************************************)
EXTENDS Integers, Sequences, FiniteSets, TLC

VARIABLES service, msg, pc, call, raised, stdout, invoked, ret

vars == <<service, msg, pc, call, raised, stdout, invoked, ret>>

----------------------------------------------------------------------------
(* Bounds of the explored inputs *)

MaxLen == 2

MaxUpper == 2

MaxSec == 1

MaxUsec == 1

----------------------------------------------------------------------------
(* Python values *)

None == <<>>

Some(v) == <<v>>

\* Python truthiness of an optional str: None and "" are falsy
Falsy(o) == o = None \/ o = Some("")

Chars == {"1", "+", "a"}

Digits == {"0", "1", "2", "3", "4", "5", "6", "7", "8", "9"}

LowerAlpha == <<"a","b","c","d","e","f","g","h","i","j","k","l","m",
                "n","o","p","q","r","s","t","u","v","w","x","y","z">>

UpperAlpha == <<"A","B","C","D","E","F","G","H","I","J","K","L","M",
                "N","O","P","Q","R","S","T","U","V","W","X","Y","Z">>

lower_char(c) ==
    IF \E i \in 1..Len(UpperAlpha) : UpperAlpha[i] = c
    THEN LowerAlpha[CHOOSE i \in 1..Len(UpperAlpha) : UpperAlpha[i] = c]
    ELSE c

upper_char(c) ==
    IF \E i \in 1..Len(LowerAlpha) : LowerAlpha[i] = c
    THEN UpperAlpha[CHOOSE i \in 1..Len(LowerAlpha) : LowerAlpha[i] = c]
    ELSE c

\* str.lower()
lower(s) == [i \in 1..Len(s) |-> lower_char(s[i])]

\* str.upper()
upper(s) == [i \in 1..Len(s) |-> upper_char(s[i])]

\* str.replace(old, '') for a one-character old
replace(s, old) == SelectSeq(s, LAMBDA c : c # old)

\* str.isdigit(): non-empty and every character a digit
isdigit(s) == Len(s) > 0 /\ \A i \in 1..Len(s) : s[i] \in Digits

\* datetime.strftime("%Y-%m-%d %H:%M:%S"): the sub-second part is dropped
strftime(d) == [format |-> "%Y-%m-%d %H:%M:%S", sec |-> d.sec]

ValueError(text) == [type |-> "ValueError", text |-> text]

\* the result of running a piece of code: the exception it raised (if any),
\* the object it built (if any), the lines it printed and the channel
\* operations it invoked
Result(exc, obj, out, inv) ==
    [raised |-> exc, obj |-> obj, stdout |-> out, invoked |-> inv]

----------------------------------------------------------------------------
(* Inputs *)

Recipients == UNION {[1..n -> Chars] : n \in 0..MaxLen}

whatsapp == <<"w","h","a","t","s","a","p","p">>

telegram == <<"t","e","l","e","g","r","a","m">>

facebook == <<"f","a","c","e","b","o","o","k">>

instagram == <<"i","n","s","t","a","g","r","a","m">>

signal == <<"s","i","g","n","a","l">>

BaseNames == {whatsapp, telegram, facebook, instagram, signal, <<>>}

\* n with the positions in S upper-cased
Cased(n, S) == [i \in 1..Len(n) |-> IF i \in S THEN upper_char(n[i]) ELSE n[i]]

ChannelNames ==
    {Cased(n, S) : n \in BaseNames, S \in SUBSET (1..MaxUpper)}
        \cup {upper(n) : n \in BaseNames}

Bodies == {"hello", "Selfie do dia"}

FilePaths == {None, Some(""), Some("/caminho/para/foto.jpg")}

FileFormats == {None, Some(""), Some("JPEG")}

Durations == {120}

DateTimes == [sec : 0..MaxSec, usec : 0..MaxUsec]

----------------------------------------------------------------------------
(* Messages *)

MessageBase_init(cls, message, file_path, file_format, t) ==
    [cls |-> cls, message |-> message, file_path |-> file_path,
     file_format |-> file_format, send_date |-> t, duration |-> None]

MessageBase_get_details(self) ==
    [mensagem |-> self.message,
     data_envio |-> strftime(self.send_date),
     caminho_arquivo |-> self.file_path,
     formato_arquivo |-> self.file_format]

TextMessage_init(message, t) ==
    Result(None, Some(MessageBase_init("TextMessage", message, None, None, t)),
           <<>>, <<>>)


\* mutant: the text message returns the base details, file attributes included
TextMessage_get_details_base(self) ==
    ("tipo" :> "Texto") @@ MessageBase_get_details(self)

TextMessage_get_details(self) ==
    LET base_details == MessageBase_get_details(self)
    IN  [tipo |-> "Texto",
         mensagem |-> base_details.mensagem,
         data_envio |-> base_details.data_envio]


\* mutant: the constructor rejects only when both file attributes are missing
MediaMessage_init_and(cls, message, file_path, file_format, t) ==
    IF Falsy(file_path) /\ Falsy(file_format)
    THEN Result(Some(ValueError(<<"Caminho e formato do arquivo são obrigatórios para mensagens de mídia.">>)),
                None, <<>>, <<>>)
    ELSE Result(None, Some(MessageBase_init(cls, message, file_path, file_format, t)),
                <<>>, <<>>)

MediaMessage_init(cls, message, file_path, file_format, t) ==
    IF Falsy(file_path) \/ Falsy(file_format)
    THEN Result(Some(ValueError(<<"Caminho e formato do arquivo são obrigatórios para mensagens de mídia.">>)),
                None, <<>>, <<>>)
    ELSE Result(None, Some(MessageBase_init(cls, message, file_path, file_format, t)),
                <<>>, <<>>)

MediaMessage_get_details(self) ==
    LET base_details == MessageBase_get_details(self)
    IN  [mensagem |-> base_details.mensagem,
         data_envio |-> base_details.data_envio,
         caminho_arquivo |-> base_details.caminho_arquivo,
         formato_arquivo |-> base_details.formato_arquivo]

PhotoMessage_init(message, file_path, file_format, t) ==
    MediaMessage_init("PhotoMessage", message, file_path, file_format, t)

PhotoMessage_get_details(self) ==
    ("tipo" :> "Foto") @@ MediaMessage_get_details(self)

VideoMessage_init(message, file_path, file_format, duration, t) ==
    LET super == MediaMessage_init("VideoMessage", message, file_path, file_format, t)
    IN  IF super.raised # None
        THEN super
        ELSE [super EXCEPT !.obj = Some([super.obj[1] EXCEPT !.duration = Some(duration)])]

VideoMessage_get_details(self) ==
    ("tipo" :> "Vídeo") @@ ("duração_segundos" :> self.duration[1])
        @@ MediaMessage_get_details(self)

FileMessage_init(message, file_path, file_format, t) ==
    MediaMessage_init("FileMessage", message, file_path, file_format, t)

FileMessage_get_details(self) ==
    ("tipo" :> "Arquivo") @@ MediaMessage_get_details(self)

\* message.get_details(): dynamic dispatch on the message's class
get_details(self) ==
    CASE self.cls = "TextMessage"  -> TextMessage_get_details(self)
      [] self.cls = "PhotoMessage" -> PhotoMessage_get_details(self)
      [] self.cls = "VideoMessage" -> VideoMessage_get_details(self)
      [] self.cls = "FileMessage"  -> FileMessage_get_details(self)

----------------------------------------------------------------------------
(* Channels *)

ChannelBase_init(cls, name, address_type) ==
    [cls |-> cls, name |-> name, address_type |-> address_type]

WhatsAppChannel_init == ChannelBase_init("WhatsAppChannel", "WhatsApp", "telefone")

TelegramChannel_init(address_type) ==
    IF address_type \notin {"telefone", "usuario"}
    THEN Result(Some(ValueError(<<"Tipo de endereço inválido para Telegram. Use 'telefone' ou 'usuario'.">>)),
                None, <<>>, <<>>)
    ELSE Result(None, Some(ChannelBase_init("TelegramChannel", "Telegram", address_type)),
                <<>>, <<>>)

FacebookChannel_init == ChannelBase_init("FacebookChannel", "Facebook", "usuario")

InstagramChannel_init == ChannelBase_init("InstagramChannel", "Instagram", "usuario")

ValidationNotice(self, recipient) ==
    [line |-> "Validando destinatário", recipient |-> recipient,
     channel |-> self.name, address_type |-> self.address_type]


\* mutant: the validation notice is printed before the emptiness test
ChannelBase_validate_recipient_print_first(self, recipient) ==
    IF recipient = <<>>
    THEN Result(Some(ValueError(<<"O destinatário não pode ser vazio.">>)), None,
                <<ValidationNotice(self, recipient)>>, <<>>)
    ELSE Result(None, None, <<ValidationNotice(self, recipient)>>, <<>>)

ChannelBase_validate_recipient(self, recipient) ==
    IF recipient = <<>>
    THEN Result(Some(ValueError(<<"O destinatário não pode ser vazio.">>)), None, <<>>, <<>>)
    ELSE Result(None, None, <<ValidationNotice(self, recipient)>>, <<>>)

\* the addressing label each channel class writes in its send lines
AddressLabel(self) ==
    CASE self.cls = "WhatsAppChannel"  -> "Telefone"
      [] self.cls = "TelegramChannel"  -> self.address_type
      [] self.cls = "FacebookChannel"  -> "Usuário"
      [] self.cls = "InstagramChannel" -> "Usuário"

SendLine(self, kind, recipient, fields) ==
    [line |-> "Enviando", channel |-> self.name, kind |-> kind,
     recipient |-> recipient, label |-> AddressLabel(self), fields |-> fields]

\* the body shared by the sixteen send_* methods: validate, then print
ChannelSend(self, op, kind, message, recipient, fields) ==
    LET v == ChannelBase_validate_recipient(self, recipient)
        inv == <<[channel |-> self, op |-> op, message |-> message,
                  recipient |-> recipient]>>
    IN  IF v.raised # None
        THEN Result(v.raised, None, v.stdout, inv)
        ELSE Result(None, None,
                    v.stdout \o <<SendLine(self, kind, recipient, fields)>>, inv)

send_text(self, message, recipient) ==
    ChannelSend(self, "send_text", "TEXTO", message, recipient,
                [message |-> message.message])

send_photo(self, message, recipient) ==
    ChannelSend(self, "send_photo", "FOTO", message, recipient,
                [file_path |-> message.file_path, file_format |-> message.file_format,
                 message |-> message.message])

send_video(self, message, recipient) ==
    ChannelSend(self, "send_video", "VÍDEO", message, recipient,
                [file_path |-> message.file_path, file_format |-> message.file_format,
                 duration |-> message.duration, message |-> message.message])

send_file(self, message, recipient) ==
    ChannelSend(self, "send_file", "ARQUIVO", message, recipient,
                [file_path |-> message.file_path, file_format |-> message.file_format,
                 message |-> message.message])


\* mutant: the photo message calls the file operation
send_photo_as_file(self, channel, recipient) ==
    CASE self.cls = "TextMessage"  -> send_text(channel, self, recipient)
      [] self.cls = "PhotoMessage" -> send_file(channel, self, recipient)
      [] self.cls = "VideoMessage" -> send_video(channel, self, recipient)
      [] self.cls = "FileMessage"  -> send_file(channel, self, recipient)

\* message.send(channel, recipient): each message class calls its own channel operation
send(self, channel, recipient) ==
    CASE self.cls = "TextMessage"  -> send_text(channel, self, recipient)
      [] self.cls = "PhotoMessage" -> send_photo(channel, self, recipient)
      [] self.cls = "VideoMessage" -> send_video(channel, self, recipient)
      [] self.cls = "FileMessage"  -> send_file(channel, self, recipient)

----------------------------------------------------------------------------
(* MessageService *)

MessageService_init ==
    [whatsapp       |-> WhatsAppChannel_init,
     telegram_phone |-> TelegramChannel_init("telefone").obj[1],
     telegram_user  |-> TelegramChannel_init("usuario").obj[1],
     facebook       |-> FacebookChannel_init,
     instagram      |-> InstagramChannel_init]


\* str.lstrip(ch): s without its leading run of ch
lstrip(s, ch) ==
    LET k == CHOOSE k \in 0..Len(s) :
                 /\ \A i \in 1..k : s[i] = ch
                 /\ (k = Len(s) \/ s[k + 1] # ch)
    IN  SubSeq(s, k + 1, Len(s))

\* mutant: Telegram is selected by a test that strips only the leading "+"
select_channel_lstrip(self, channel_name, recipient) ==
    IF channel_name = whatsapp THEN Some(self.whatsapp)
    ELSE IF channel_name = telegram
         THEN IF isdigit(lstrip(recipient, "+"))
              THEN Some(self.telegram_phone)
              ELSE Some(self.telegram_user)
    ELSE IF channel_name = facebook THEN Some(self.facebook)
    ELSE IF channel_name = instagram THEN Some(self.instagram)
    ELSE None

\* the channel selection of send_message; None when the name is not supported
select_channel(self, channel_name, recipient) ==
    IF channel_name = whatsapp THEN Some(self.whatsapp)
    ELSE IF channel_name = telegram
         THEN IF isdigit(replace(recipient, "+"))
              THEN Some(self.telegram_phone)
              ELSE Some(self.telegram_user)
    ELSE IF channel_name = facebook THEN Some(self.facebook)
    ELSE IF channel_name = instagram THEN Some(self.instagram)
    ELSE None

Warning(channel, expects, recipient) ==
    [line |-> "AVISO", channel |-> channel.name, expects |-> expects,
     recipient |-> recipient]

\* the address-type compatibility check of send_message: the lines it prints
address_check(channel, recipient) ==
    IF channel.address_type = "telefone" /\ ~isdigit(replace(recipient, "+"))
    THEN <<Warning(channel, "um número de telefone", recipient)>>
    ELSE IF channel.address_type = "usuario" /\ isdigit(replace(recipient, "+"))
         THEN <<Warning(channel, "um nome de usuário", recipient)>>
         ELSE <<>>

Confirmation(message) ==
    [line |-> "Detalhes da Mensagem Enviada", details |-> get_details(message)]


\* mutant: the channel name is compared as given, without lower()
send_message_no_lower(self, channel_name, recipient, message) ==
    LET sel == select_channel(self, channel_name, recipient)
    IN  IF sel = None
        THEN Result(Some(ValueError(<<"Canal '", channel_name, "' não suportado.">>)),
                    None, <<>>, <<>>)
        ELSE LET channel == sel[1]
                 warn == address_check(channel, recipient)
                 sent == send(message, channel, recipient)
             IN  IF sent.raised # None
                 THEN Result(sent.raised, None, warn \o sent.stdout, sent.invoked)
                 ELSE Result(None, None,
                             warn \o sent.stdout \o <<Confirmation(message)>>,
                             sent.invoked)

\* mutant: the confirmation line is printed before the message is sent
send_message_confirm_first(self, channel_name_arg, recipient, message) ==
    LET channel_name == lower(channel_name_arg)
        sel == select_channel(self, channel_name, recipient)
    IN  IF sel = None
        THEN Result(Some(ValueError(<<"Canal '", channel_name, "' não suportado.">>)),
                    None, <<>>, <<>>)
        ELSE LET channel == sel[1]
                 warn == address_check(channel, recipient)
                 sent == send(message, channel, recipient)
             IN  Result(sent.raised, None,
                        warn \o <<Confirmation(message)>> \o sent.stdout,
                        sent.invoked)

send_message(self, channel_name_arg, recipient, message) ==
    LET channel_name == lower(channel_name_arg)
        sel == select_channel(self, channel_name, recipient)
    IN  IF sel = None
        THEN Result(Some(ValueError(<<"Canal '", channel_name, "' não suportado.">>)),
                    None, <<>>, <<>>)
        ELSE LET channel == sel[1]
                 warn == address_check(channel, recipient)
                 sent == send(message, channel, recipient)
             IN  IF sent.raised # None
                 THEN Result(sent.raised, None, warn \o sent.stdout, sent.invoked)
                 ELSE Result(None, None,
                             warn \o sent.stdout \o <<Confirmation(message)>>,
                             sent.invoked)

----------------------------------------------------------------------------
(* The state machine: a sequential caller, as run_example is, that builds  *)
(* messages and sends them one call at a time.  pc = "ready" before a call,*)
(* "done" when the call has returned or raised; call, raised, stdout,      *)
(* invoked and ret describe the call just made.                            *)

Init ==
    /\ service = MessageService_init
    /\ msg = None
    /\ pc = "ready"
    /\ call = [op |-> "MessageService"]
    /\ raised = None
    /\ stdout = <<>>
    /\ invoked = <<>>
    /\ ret = None

\* the effect of a constructor call: the caller holds the new object unless
\* the constructor raised
Constructed(c, r) ==
    /\ pc = "ready"
    /\ pc' = "done"
    /\ call' = c
    /\ msg' = IF r.raised = None THEN r.obj ELSE msg
    /\ raised' = r.raised
    /\ stdout' = r.stdout
    /\ invoked' = r.invoked
    /\ ret' = None
    /\ UNCHANGED service

NewTextMessage ==
    \E message \in Bodies, t \in DateTimes :
        Constructed([op |-> "TextMessage", message |-> message, now |-> t],
                    TextMessage_init(message, t))

NewPhotoMessage ==
    \E message \in Bodies, file_path \in FilePaths, file_format \in FileFormats,
       t \in DateTimes :
        Constructed([op |-> "PhotoMessage", message |-> message,
                     file_path |-> file_path, file_format |-> file_format, now |-> t],
                    PhotoMessage_init(message, file_path, file_format, t))

NewVideoMessage ==
    \E message \in Bodies, file_path \in FilePaths, file_format \in FileFormats,
       duration \in Durations, t \in DateTimes :
        Constructed([op |-> "VideoMessage", message |-> message,
                     file_path |-> file_path, file_format |-> file_format,
                     duration |-> duration, now |-> t],
                    VideoMessage_init(message, file_path, file_format, duration, t))

NewFileMessage ==
    \E message \in Bodies, file_path \in FilePaths, file_format \in FileFormats,
       t \in DateTimes :
        Constructed([op |-> "FileMessage", message |-> message,
                     file_path |-> file_path, file_format |-> file_format, now |-> t],
                    FileMessage_init(message, file_path, file_format, t))


\* mutant: a call leaves the service with its phone-mode Telegram channel
\* replaced by the channel it used last
Called_rebinding(c, r, value) ==
    /\ pc = "ready"
    /\ pc' = "done"
    /\ call' = c
    /\ raised' = r.raised
    /\ stdout' = r.stdout
    /\ invoked' = r.invoked
    /\ ret' = value
    /\ service' = IF r.invoked = <<>> THEN service
                  ELSE [service EXCEPT !.telegram_phone = r.invoked[1].channel]
    /\ UNCHANGED msg

\* the effect of a call that builds nothing
Called(c, r, value) ==
    /\ pc = "ready"
    /\ pc' = "done"
    /\ call' = c
    /\ raised' = r.raised
    /\ stdout' = r.stdout
    /\ invoked' = r.invoked
    /\ ret' = value
    /\ UNCHANGED <<service, msg>>

\* service.send_message(channel_name, recipient, msg)
SendMessage ==
    /\ msg # None
    /\ \E channel_name \in ChannelNames, recipient \in Recipients :
        Called([op |-> "send_message", channel_name |-> channel_name,
                recipient |-> recipient],
               send_message(service, channel_name, recipient, msg[1]), None)

\* msg.send(channel, recipient) on one of the service's channels
MessageSend ==
    /\ msg # None
    /\ \E key \in DOMAIN service, recipient \in Recipients :
        Called([op |-> "send", channel |-> service[key], recipient |-> recipient],
               send(msg[1], service[key], recipient), None)

\* msg.get_details()
GetDetails ==
    /\ msg # None
    /\ Called([op |-> "get_details"], Result(None, None, <<>>, <<>>),
              Some(get_details(msg[1])))

\* the caller goes on to its next statement: the outcome of the call just
\* made is behind it
Continue ==
    /\ pc = "done"
    /\ pc' = "ready"
    /\ call' = [op |-> "none"]
    /\ raised' = None
    /\ stdout' = <<>>
    /\ invoked' = <<>>
    /\ ret' = None
    /\ UNCHANGED <<service, msg>>

Next ==
    \/ NewTextMessage
    \/ NewPhotoMessage
    \/ NewVideoMessage
    \/ NewFileMessage
    \/ SendMessage
    \/ MessageSend
    \/ GetDetails
    \/ Continue

Spec == Init /\ [][Next]_vars

----------------------------------------------------------------------------
(* Vocabulary of the properties *)

\* a send_message call has just returned or raised
SentMessage == pc = "done" /\ call.op = "send_message"

\* a direct msg.send(channel, recipient) call has just returned or raised
SentDirect == pc = "done" /\ call.op = "send"

\* the lines of stdout, by their leading text
LineKinds == [i \in 1..Len(stdout) |-> stdout[i].line]

CountLines(kind) == Cardinality({i \in 1..Len(stdout) : stdout[i].line = kind})

\* "after stripping any leading +, consists entirely of digits"
AllDigitAfterLeadingPlus(recipient) == isdigit(lstrip(recipient, "+"))

SupportedNames == {whatsapp, telegram, facebook, instagram}

MediaClasses == {"PhotoMessage", "VideoMessage", "FileMessage"}

\* the channel operation that belongs to each message class
OperationOf(cls) ==
    CASE cls = "TextMessage"  -> "send_text"
      [] cls = "PhotoMessage" -> "send_photo"
      [] cls = "VideoMessage" -> "send_video"
      [] cls = "FileMessage"  -> "send_file"

\* the kind written in the send line of each message class
SendKindOf(cls) ==
    CASE cls = "TextMessage"  -> "TEXTO"
      [] cls = "PhotoMessage" -> "FOTO"
      [] cls = "VideoMessage" -> "VÍDEO"
      [] cls = "FileMessage"  -> "ARQUIVO"

\* the provider name each supported channel name stands for
ProviderOf(name) ==
    CASE name = whatsapp  -> "WhatsApp"
      [] name = telegram  -> "Telegram"
      [] name = facebook  -> "Facebook"
      [] name = instagram -> "Instagram"

EmptyRecipientError == ValueError(<<"O destinatário não pode ser vazio.">>)

\* the exception types of the validation failures: empty recipient, missing
\* media attributes, invalid Telegram address type
ValidationErrorTypes ==
    {ChannelBase_validate_recipient(WhatsAppChannel_init, <<>>).raised[1].type,
     MediaMessage_init("PhotoMessage", "hello", None, None, [sec |-> 0, usec |-> 0]).raised[1].type,
     TelegramChannel_init("email").raised[1].type}

----------------------------------------------------------------------------
(* C1 *)

\* C1: send_message with channel name "telegram" invokes the phone-mode
\* Telegram channel exactly when the recipient, after stripping any leading
\* "+", consists entirely of digits, and the username-mode channel otherwise.
C1_TelegramByLeadingPlus ==
    (SentMessage /\ lower(call.channel_name) = telegram) =>
        /\ Len(invoked) = 1
        /\ invoked[1].channel =
              IF AllDigitAfterLeadingPlus(call.recipient)
              THEN service.telegram_phone
              ELSE service.telegram_user

----------------------------------------------------------------------------
(* C2 *)

\* the channel name is resolved case-insensitively: the outcome of the call is
\* the outcome of the same call with the lower-cased name
CaseInsensitive ==
    SentMessage =>
        LET r == send_message(service, lower(call.channel_name), call.recipient, msg[1])
        IN  /\ raised = r.raised
            /\ stdout = r.stdout
            /\ invoked = r.invoked
            /\ (lower(call.channel_name) \in SupportedNames /\ call.recipient # <<>>) =>
                   /\ raised = None
                   /\ invoked[1].channel.name = ProviderOf(lower(call.channel_name))

\* a name whose lower-case form is none of the four fails before anything is
\* printed or invoked
UnsupportedFails ==
    (SentMessage /\ lower(call.channel_name) \notin SupportedNames) =>
        /\ raised # None
        /\ invoked = <<>>
        /\ stdout = <<>>

\* C2 as stated: any casing of the four names resolves like the lower-case
\* name, and any other name fails, invoking no channel operation, with an error
\* kind separate from the validation errors.
C2_SeparateErrorKind ==
    /\ CaseInsensitive
    /\ UnsupportedFails
    /\ (SentMessage /\ lower(call.channel_name) \notin SupportedNames) =>
           (raised # None /\ raised[1].type \notin ValidationErrorTypes)

\* C2 amended: any casing of the four names resolves like the lower-case name,
\* and any other name fails, invoking no channel operation, with a ValueError,
\* the exception type of the validation failures too, whose text "Canal
\* '<lower-cased name>' não suportado." is what tells it from them.
C2_ValueErrorByText ==
    /\ CaseInsensitive
    /\ UnsupportedFails
    /\ (SentMessage /\ lower(call.channel_name) \notin SupportedNames) =>
           /\ raised = Some(ValueError(<<"Canal '", lower(call.channel_name),
                                         "' não suportado.">>))
           /\ raised[1].type \in ValidationErrorTypes
           /\ raised[1] # EmptyRecipientError

C2_Witness ==
    /\ SentMessage
    /\ call.channel_name = upper(signal)
    /\ raised # None
    /\ msg[1].cls = "PhotoMessage"

----------------------------------------------------------------------------
(* C3 *)

\* C3: on every channel, each of the four send operations called with an empty
\* recipient raises the validation error and prints neither the validation
\* notice nor the send line.
C3_EmptyRecipientRaisesFirst ==
    (pc = "done" /\ call.op \in {"send", "send_message"}
        /\ call.recipient = <<>> /\ invoked # <<>>) =>
        /\ raised = Some(EmptyRecipientError)
        /\ CountLines("Validando destinatário") = 0
        /\ CountLines("Enviando") = 0
        /\ CountLines("Detalhes da Mensagem Enviada") = 0

C3_Witness ==
    /\ SentDirect
    /\ call.recipient = <<>>
    /\ call.channel = service.telegram_user
    /\ invoked # <<>>
    /\ invoked[1].op = "send_video"
    /\ raised # None

----------------------------------------------------------------------------
(* C4 *)

\* C4: for every supported channel name and non-empty recipient, when the
\* resolved channel expects a phone number and the recipient, after stripping
\* leading "+", is not all-digit, or expects a username and the recipient is
\* all-digit, exactly one warning is printed, the channel operation is still
\* invoked and the call completes; otherwise no warning is printed.
C4_WarningByLeadingPlus ==
    (SentMessage /\ lower(call.channel_name) \in SupportedNames
        /\ call.recipient # <<>>) =>
        /\ Len(invoked) = 1
        /\ raised = None
        /\ LET channel == invoked[1].channel
               digits == AllDigitAfterLeadingPlus(call.recipient)
               mismatch == \/ channel.address_type = "telefone" /\ ~digits
                           \/ channel.address_type = "usuario" /\ digits
           IN  CountLines("AVISO") = IF mismatch THEN 1 ELSE 0

----------------------------------------------------------------------------
(* C5 *)

\* C5: a media message constructor raises exactly when the file path or the
\* file format is empty or missing, and then yields no object; otherwise it
\* yields the object with the given attributes; every media message that
\* exists has a non-empty path and format, which get_details returns as they
\* are.
C5_MediaNeedsPathAndFormat ==
    /\ (pc = "done" /\ call.op \in MediaClasses) =>
          IF Falsy(call.file_path) \/ Falsy(call.file_format)
          THEN /\ raised # None
               /\ raised[1].type = "ValueError"
               /\ (msg # None /\ msg[1].cls = call.op) =>
                      <<msg[1].file_path, msg[1].file_format>>
                          # <<call.file_path, call.file_format>>
          ELSE /\ raised = None
               /\ msg # None
               /\ msg[1].cls = call.op
               /\ msg[1].message = call.message
               /\ msg[1].file_path = call.file_path
               /\ msg[1].file_format = call.file_format
    /\ (msg # None /\ msg[1].cls \in MediaClasses) =>
          /\ ~Falsy(msg[1].file_path)
          /\ ~Falsy(msg[1].file_format)
          /\ get_details(msg[1]).caminho_arquivo = msg[1].file_path
          /\ get_details(msg[1]).formato_arquivo = msg[1].file_format

C5_Witness ==
    /\ pc = "done"
    /\ call.op = "VideoMessage"
    /\ call.file_path = Some("/caminho/para/foto.jpg")
    /\ call.file_format = Some("")
    /\ raised # None
    /\ msg # None
    /\ msg[1].cls = "FileMessage"

----------------------------------------------------------------------------
(* C6 *)

\* what get_details returns besides the tag: the body, the send date formatted
\* to the second, the file attributes for the media classes only, the duration
\* for the video only
DetailsContent ==
    (pc = "done" /\ call.op = "get_details") =>
        LET d == ret[1]
            m == msg[1]
        IN  /\ d.mensagem = m.message
            /\ d.data_envio.format = "%Y-%m-%d %H:%M:%S"
            /\ d.data_envio.sec = m.send_date.sec
            /\ ("caminho_arquivo" \in DOMAIN d) = (m.cls \in MediaClasses)
            /\ ("formato_arquivo" \in DOMAIN d) = (m.cls \in MediaClasses)
            /\ (m.cls \in MediaClasses) =>
                   /\ d.caminho_arquivo = m.file_path
                   /\ d.formato_arquivo = m.file_format
            /\ ("duração_segundos" \in DOMAIN d) = (m.cls = "VideoMessage")
            /\ (m.cls = "VideoMessage") => Some(d["duração_segundos"]) = m.duration

DetailsTag(tags) ==
    (pc = "done" /\ call.op = "get_details") =>
        /\ "tipo" \in DOMAIN ret[1]
        /\ ret[1].tipo = tags[msg[1].cls]

\* C6 as stated: get_details returns the tag "Text", "Photo", "Video" or "File"
\* of the message's class, the body, the formatted send date, the file path
\* and format for the media classes only and the duration for the video only.
C6_EnglishTags ==
    /\ DetailsContent
    /\ DetailsTag([TextMessage |-> "Text", PhotoMessage |-> "Photo",
                   VideoMessage |-> "Video", FileMessage |-> "File"])

\* C6 amended: the tags are "Texto", "Foto", "Vídeo" and "Arquivo"; the rest
\* as stated.
C6_PortugueseTags ==
    /\ DetailsContent
    /\ DetailsTag([TextMessage |-> "Texto", PhotoMessage |-> "Foto",
                   VideoMessage |-> "Vídeo", FileMessage |-> "Arquivo"])

C6_Witness ==
    /\ pc = "done"
    /\ call.op = "get_details"
    /\ msg[1].cls = "VideoMessage"
    /\ ret[1].tipo = "Vídeo"
    /\ ret[1]["duração_segundos"] = 120

----------------------------------------------------------------------------
(* C7 *)

\* C7: msg.send(channel, recipient) invokes exactly one channel operation, the
\* one of the message's class, on that channel with that message and recipient;
\* a successful send_message prints exactly one send line, of the message's
\* kind and naming the resolved channel.
C7_DoubleDispatch ==
    /\ SentDirect =>
          invoked = <<[channel |-> call.channel, op |-> OperationOf(msg[1].cls),
                       message |-> msg[1], recipient |-> call.recipient]>>
    /\ (SentMessage /\ raised = None) =>
          /\ Len(invoked) = 1
          /\ invoked[1].op = OperationOf(msg[1].cls)
          /\ invoked[1].message = msg[1]
          /\ invoked[1].recipient = call.recipient
          /\ \E key \in DOMAIN service : invoked[1].channel = service[key]
          /\ CountLines("Enviando") = 1
          /\ \A i \in 1..Len(stdout) :
                stdout[i].line = "Enviando" =>
                    /\ stdout[i].kind = SendKindOf(msg[1].cls)
                    /\ stdout[i].channel = ProviderOf(lower(call.channel_name))
                    /\ stdout[i].channel = invoked[1].channel.name
                    /\ stdout[i].recipient = call.recipient
                    /\ stdout[i].fields.message = msg[1].message

C7_Witness ==
    /\ SentMessage
    /\ raised = None
    /\ msg[1].cls = "PhotoMessage"
    /\ lower(call.channel_name) = instagram
    /\ invoked[1].op = "send_photo"

----------------------------------------------------------------------------
(* C8 *)

\* C8: a send_message call prints, in this order, the warning if there is one,
\* the validation notice, the send line and the confirmation line carrying
\* get_details of the message; a call that raises prints neither a send line
\* nor a confirmation line.
C8_OutputOrder ==
    SentMessage =>
        /\ LineKinds \in
              {<<>>,
               <<"AVISO">>,
               <<"Validando destinatário", "Enviando", "Detalhes da Mensagem Enviada">>,
               <<"AVISO", "Validando destinatário", "Enviando",
                 "Detalhes da Mensagem Enviada">>}
        /\ (raised # None) = (CountLines("Enviando") = 0)
        /\ (raised # None) = (CountLines("Detalhes da Mensagem Enviada") = 0)
        /\ (raised = None) => stdout[Len(stdout)].details = get_details(msg[1])

C8_Witness ==
    /\ SentMessage
    /\ raised = None
    /\ Len(stdout) = 4
    /\ stdout[1].line = "AVISO"
    /\ msg[1].cls = "TextMessage"

----------------------------------------------------------------------------
(* C9 *)

FiveChannels ==
    /\ DOMAIN service = {"whatsapp", "telegram_phone", "telegram_user",
                         "facebook", "instagram"}
    /\ <<service.whatsapp.name, service.whatsapp.address_type>>
          = <<"WhatsApp", "telefone">>
    /\ <<service.telegram_phone.name, service.telegram_phone.address_type>>
          = <<"Telegram", "telefone">>
    /\ <<service.telegram_user.name, service.telegram_user.address_type>>
          = <<"Telegram", "usuario">>
    /\ <<service.facebook.name, service.facebook.address_type>>
          = <<"Facebook", "usuario">>
    /\ <<service.instagram.name, service.instagram.address_type>>
          = <<"Instagram", "usuario">>

\* the outcome of a send_message call is the outcome of the same call on a
\* freshly built service
FreshOutcome ==
    SentMessage =>
        LET r == send_message(MessageService_init, call.channel_name,
                              call.recipient, msg[1])
        IN  <<raised, stdout, invoked>> = <<r.raised, r.stdout, r.invoked>>

\* C9: whatever calls were made, the service holds the five channel
\* configurations built at construction; no send_message, send or get_details
\* call changes a channel or the message passed in, and the outcome of a call
\* depends on its arguments only.
C9_NoStateChange ==
    /\ [](FiveChannels /\ FreshOutcome)
    /\ [][service' = service]_vars
    /\ [][(pc = "ready" /\ call'.op \in {"send_message", "send", "get_details"})
             => msg' = msg]_vars

C9_Witness ==
    /\ SentMessage
    /\ raised # None
    /\ invoked # <<>>
    /\ lower(call.channel_name) = telegram
    /\ FiveChannels

----------------------------------------------------------------------------
(* C10 *)

\* C10: a send_message call with channel name "telegram" prints no
\* addressing-mismatch warning, whatever the recipient; a warning is printed
\* only under "whatsapp", "facebook" or "instagram".
C10_TelegramNeverWarns ==
    SentMessage =>
        /\ (lower(call.channel_name) = telegram) => CountLines("AVISO") = 0
        /\ (CountLines("AVISO") > 0) =>
               lower(call.channel_name) \in {whatsapp, facebook, instagram}

C10_Witness ==
    /\ SentMessage
    /\ lower(call.channel_name) = telegram
    /\ call.recipient = <<"+", "1">>
    /\ invoked[1].channel = service.telegram_phone
    /\ raised = None
    /\ CountLines("AVISO") = 0

====
